---- MODULE Spec2Model ----
(***************************************************************************)
(* Model of the discovery-and-ranking pipeline of github_crawler.py:       *)
(* GitHubCrawler.search_repositories and the functions it calls            *)
(* (_calculate_project_score, _filter_projects, _apply_custom_filters,     *)
(* _ensure_diversity).                                                     *)
(*                                                                         *)
(* Representation of the data:                                             *)
(*  - a timestamp is an integer number of ticks, TicksPerDay ticks to the  *)
(*    day; Now is the instant datetime.now(timezone.utc) returns;          *)
(*  - a description is its length len(description), None is NULL;          *)
(*  - the topic list is its length len(topics);                            *)
(*  - a language is a string, None is NoLanguage;                          *)
(*  - a float is an IEEE 754 double, sign * mant * 2^exp, and its          *)
(*    arithmetic rounds to nearest, ties to even, as Python's does; the    *)
(*    rounded quality_score is an integer number of hundredths.            *)
(***************************************************************************)
EXTENDS Integers, Sequences, FiniteSets, TLC

VARIABLES
    pc,                 \* position of the running call
    config,             \* self.config: max_results, min_stars
    response,           \* what requests.get returned
    projects,           \* the mapped candidate list
    quality_projects,   \* output of _filter_projects (Stage A)
    strict_projects,    \* output of the first _apply_custom_filters call
    filtered_projects,  \* the list handed to _ensure_diversity
    final_projects,     \* output of _ensure_diversity
    result,             \* the list search_repositories returns
    exception,          \* the exception the call ended with, NoException if none
    relaxed_runs,       \* how many times the relaxed predicate set was evaluated
    relaxed_input,      \* the list the relaxed predicate set was evaluated on
    project,            \* the project dict a direct call works on
    score,              \* result of a direct _calculate_project_score call, a double
    queries,            \* the _build_search_query calls made: instant and result
    handed,             \* the list handed to AIAnalyzer.analyze_projects, as received
    results,            \* the list analyze_projects builds
    smtp,               \* the running EmailSender.send_email call
    attempt_number,     \* the attempt of _make_api_request the retry decorator is at
    sum_algorithm       \* how the interpreter's sum() adds floats

vars == << pc, config, response, projects, quality_projects, strict_projects,
           filtered_projects, final_projects, result, exception, relaxed_runs,
           relaxed_input, project, score, queries, handed, results, smtp,
           attempt_number, sum_algorithm >>

----------------------------------------------------------------------------
(* Bounds of the model *)

MaxItems == 3
MaxResults == 3
TicksPerDay == 2

(* Constants of the program *)

ActivityWeight == 35
ActivityWindow == 7
GrowthWeight == 25
MaintenanceWeight == 20
AgeWeight == 10
AgeHorizon == 730
TopicsWeight == 5
TopicsIdeal == 5
DescWeight == 5
DescIdeal == 100
ScoreCap == 100
DefaultMinScore == 60
StrictDescLen == 30
StrictMinTopics == 1
MinAcceptable == 3
RateLimitStatus == 403

NULL == -1
NoLanguage == "None"
NoException == "none"
Now == 0

Min(a, b) == IF a <= b THEN a ELSE b
Max(a, b) == IF a >= b THEN a ELSE b
Abs(a) == IF a >= 0 THEN a ELSE 0 - a

\* (a - b).days of a timedelta: the floor of the difference in days
Days(a, b) == (a - b) \div TicksPerDay

----------------------------------------------------------------------------
(* Natural numbers of any size, for the mantissas: a number is the sequence *)
(* of its limbs of LimbBits bits, lowest first, without leading zero limbs. *)

LimbBits == 15
Base == 2^LimbBits
MantissaBits == 53

RECURSIVE NatOfInt(_)
NatOfInt(n) == IF n = 0 THEN << >> ELSE << n % Base >> \o NatOfInt(n \div Base)

RECURSIVE IntOfNat(_)
IntOfNat(a) == IF a = << >> THEN 0 ELSE a[1] + Base * IntOfNat(Tail(a))

RECURSIVE Trim(_)
Trim(a) ==
    IF a = << >> THEN << >>
    ELSE IF a[Len(a)] = 0 THEN Trim(SubSeq(a, 1, Len(a) - 1)) ELSE a

Limb(a, i) == IF i <= Len(a) THEN a[i] ELSE 0

RECURSIVE AddLimbs(_, _, _, _)
AddLimbs(a, b, i, carry) ==
    IF i > Max(Len(a), Len(b))
    THEN IF carry = 0 THEN << >> ELSE << carry >>
    ELSE << (Limb(a, i) + Limb(b, i) + carry) % Base >>
         \o AddLimbs(a, b, i + 1, (Limb(a, i) + Limb(b, i) + carry) \div Base)

NatAdd(a, b) == AddLimbs(a, b, 1, 0)

RECURSIVE SubLimbs(_, _, _, _)
SubLimbs(a, b, i, borrow) ==
    IF i > Len(a) THEN << >>
    ELSE IF a[i] - Limb(b, i) - borrow < 0
    THEN << a[i] - Limb(b, i) - borrow + Base >> \o SubLimbs(a, b, i + 1, 1)
    ELSE << a[i] - Limb(b, i) - borrow >> \o SubLimbs(a, b, i + 1, 0)

\* a - b for a >= b
NatSub(a, b) == Trim(SubLimbs(a, b, 1, 0))

RECURSIVE CmpLimbs(_, _, _)
CmpLimbs(a, b, i) ==
    IF i = 0 THEN 0
    ELSE IF a[i] > b[i] THEN 1
    ELSE IF a[i] < b[i] THEN -1
    ELSE CmpLimbs(a, b, i - 1)

\* -1, 0 or 1 as a < b, a = b or a > b
NatCmp(a, b) ==
    IF Len(a) > Len(b) THEN 1
    ELSE IF Len(a) < Len(b) THEN -1
    ELSE CmpLimbs(a, b, Len(a))

RECURSIVE MulLimbs(_, _, _, _)
MulLimbs(a, c, i, carry) ==
    IF i > Len(a)
    THEN IF carry = 0 THEN << >> ELSE << carry >>
    ELSE << (a[i] * c + carry) % Base >> \o MulLimbs(a, c, i + 1, (a[i] * c + carry) \div Base)

\* a * c for 0 <= c < Base
NatMulSmall(a, c) == Trim(MulLimbs(a, c, 1, 0))

\* the limbs i..1 of the quotient of r * Base^i + a[1..i] by d, highest first
RECURSIVE DivLimbs(_, _, _, _)
DivLimbs(a, d, i, r) ==
    IF i = 0 THEN << >>
    ELSE << (r * Base + a[i]) \div d >> \o DivLimbs(a, d, i - 1, (r * Base + a[i]) % d)

RECURSIVE Reverse(_)
Reverse(a) == IF a = << >> THEN << >> ELSE Append(Reverse(Tail(a)), a[1])

\* a \div d for 0 < d <= Base
NatDivSmall(a, d) == Trim(Reverse(DivLimbs(a, d, Len(a), 0)))

Zeros(n) == [i \in 1..n |-> 0]

\* a * 2^n
NatShl(a, n) ==
    IF a = << >> THEN << >>
    ELSE Zeros(n \div LimbBits) \o NatMulSmall(a, 2^(n % LimbBits))

\* a \div 2^n
NatShr(a, n) ==
    IF n \div LimbBits >= Len(a) THEN << >>
    ELSE NatDivSmall(SubSeq(a, (n \div LimbBits) + 1, Len(a)), 2^(n % LimbBits))

RECURSIVE BitLenInt(_)
BitLenInt(x) == IF x = 0 THEN 0 ELSE 1 + BitLenInt(x \div 2)

BitLen(a) == IF a = << >> THEN 0 ELSE LimbBits * (Len(a) - 1) + BitLenInt(a[Len(a)])

\* q or q + 1: q rounded up when the remainder compares to the half as `half`
\* says (-1, 0, 1), ties to even
RoundHalfEven(q, half) ==
    IF half > 0 \/ (half = 0 /\ q # << >> /\ q[1] % 2 = 1) THEN NatAdd(q, << 1 >>) ELSE q

\* the remainder a - q * 2^n compared with 2^(n-1)
CmpHalf(a, q, n) == NatCmp(NatSub(a, NatShl(q, n)), NatShl(<< 1 >>, n - 1))

\* a / 2^n rounded to an integer, half to even, given q = a \div 2^n
RoundQuotient(a, q, n) == RoundHalfEven(q, CmpHalf(a, q, n))

\* a / 2^n rounded to an integer, half to even
NatShrRound(a, n) == IF n = 0 THEN a ELSE RoundQuotient(a, NatShr(a, n), n)

----------------------------------------------------------------------------
(* Python floats: IEEE 754 doubles.  A double is sign * mant * 2^exp with a *)
(* mantissa of exactly MantissaBits bits, or FloatZero.                     *)

FloatZero == [sign |-> 1, mant |-> << >>, exp |-> 0]

\* sign * q * 2^e for a rounded mantissa q, which has MantissaBits bits or is
\* 2^MantissaBits
Normalized(sign, q, e) ==
    IF BitLen(q) > MantissaBits
    THEN [sign |-> sign, mant |-> NatShr(q, 1), exp |-> e + 1]
    ELSE [sign |-> sign, mant |-> q, exp |-> e]

\* the double nearest to sign * m * 2^e, ties to even, for m of len bits
Rounded(sign, m, e, len) ==
    IF len <= MantissaBits
    THEN [sign |-> sign, mant |-> NatShl(m, MantissaBits - len),
          exp |-> e - (MantissaBits - len)]
    ELSE Normalized(sign, NatShrRound(m, len - MantissaBits), e + (len - MantissaBits))

\* the double nearest to sign * m * 2^e, ties to even
RoundToDouble(sign, m, e) ==
    IF m = << >> THEN FloatZero ELSE Rounded(sign, m, e, BitLen(m))

\* float(n)
FloatOfInt(n) == RoundToDouble(IF n < 0 THEN -1 ELSE 1, NatOfInt(Abs(n)), 0)

\* the bits of the quotient kept below the binary point: with them a
\* quotient of two ints below 2^30 has more than MantissaBits bits
QuotientLimbs == 6

\* the next k bits of r / d below the binary point, after the bits acc, r < d
RECURSIVE QuotientBitsOf(_, _, _, _)
QuotientBitsOf(r, d, k, acc) ==
    IF k = 0 THEN [q |-> acc, r |-> r]
    ELSE IF 2 * r >= d
    THEN QuotientBitsOf(2 * r - d, d, k - 1, 2 * acc + 1)
    ELSE QuotientBitsOf(2 * r, d, k - 1, 2 * acc)

\* the next limb of r / d below the binary point, then the limbs after it;
\* the limbs in q, lowest first, and the last remainder in r
RECURSIVE QuotientLimbsOf(_, _, _)
PrependLimb(limb, rest) == [q |-> Append(rest.q, limb.q), r |-> rest.r]
NextLimbs(limb, d, n) == PrependLimb(limb, QuotientLimbsOf(limb.r, d, n - 1))
QuotientLimbsOf(r, d, n) ==
    IF n = 0 THEN [q |-> << >>, r |-> r]
    ELSE NextLimbs(QuotientBitsOf(r, d, LimbBits, 0), d, n)

\* 2 * q, plus 1 when the division left a remainder
WithSticky(q, r) == IF r = 0 THEN NatShl(q, 1) ELSE NatAdd(NatShl(q, 1), << 1 >>)

\* the double nearest to the quotient with the integer part int and the
\* fraction frac
QuotientToDouble(sign, int, frac) ==
    RoundToDouble(sign, WithSticky(Trim(frac.q \o int), frac.r), -(QuotientLimbs * LimbBits + 1))

\* n / d for ints, 0 < |d| < 2^30: the double nearest to the quotient
FloatDiv(n, d) ==
    QuotientToDouble(IF (n < 0) # (d < 0) THEN -1 ELSE 1,
                     NatOfInt(Abs(n) \div Abs(d)),
                     QuotientLimbsOf(Abs(n) % Abs(d), Abs(d), QuotientLimbs))

FloatAbs(x) == [x EXCEPT !.sign = 1]

\* the mantissa of x for the exponent e <= x.exp
Aligned(x, e) == NatShl(x.mant, x.exp - e)

\* sx * mx + sy * my: its sign and its absolute value, c comparing mx with my
SumSign(sx, sy, c) == IF sx = sy \/ c >= 0 THEN sx ELSE sy
SumMagnitude(sx, mx, sy, my, c) ==
    IF sx = sy THEN NatAdd(mx, my)
    ELSE IF c >= 0 THEN NatSub(mx, my)
    ELSE NatSub(my, mx)

\* the double nearest to (sx * mx + sy * my) * 2^e
AddAligned(sx, mx, sy, my, e, c) ==
    RoundToDouble(SumSign(sx, sy, c), SumMagnitude(sx, mx, sy, my, c), e)

\* x + y for doubles other than zero
AddNonZero(x, y, e) ==
    AddAligned(x.sign, Aligned(x, e), y.sign, Aligned(y, e), e,
               NatCmp(Aligned(x, e), Aligned(y, e)))

\* x + y
FloatAdd(x, y) ==
    IF x.mant = << >> THEN y
    ELSE IF y.mant = << >> THEN x
    ELSE AddNonZero(x, y, Min(x.exp, y.exp))

\* x - y
FloatSub(x, y) ==
    FloatAdd(x, IF y.mant = << >> THEN y ELSE [y EXCEPT !.sign = -y.sign])

\* n * x for an int 0 <= n < Base
FloatMulInt(n, x) == RoundToDouble(x.sign, NatMulSmall(x.mant, n), x.exp)

\* the comparison of the absolute values of doubles other than zero
CmpMagnitude(x, y, e) == NatCmp(Aligned(x, e), Aligned(y, e))

\* -1, 0 or 1 as x < y, x = y or x > y
FloatCmp(x, y) ==
    IF x.mant = << >> /\ y.mant = << >> THEN 0
    ELSE IF x.mant = << >> THEN -y.sign
    ELSE IF y.mant = << >> THEN x.sign
    ELSE IF x.sign # y.sign THEN x.sign
    ELSE x.sign * CmpMagnitude(x, y, Min(x.exp, y.exp))

FloatMin(x, y) == IF FloatCmp(y, x) < 0 THEN y ELSE x

\* x * 100 for the mantissa n of 100 * x
Hundredths(x, n) ==
    x.sign * IntOfNat(IF x.exp >= 0 THEN NatShl(n, x.exp) ELSE NatShrRound(n, -x.exp))

\* round(x, 2) in hundredths
Round2(x) == Hundredths(x, NatMulSmall(x.mant, 100))

FloatOne == FloatOfInt(1)

----------------------------------------------------------------------------
(* _calculate_project_score, in the float arithmetic of the code *)

\* 35 * (1 - min(update_days / 7, 1))
activity_score(p) ==
    LET update_days == Days(Now, p.updated_at)
    IN  FloatMulInt(ActivityWeight,
            FloatSub(FloatOne, FloatMin(FloatDiv(update_days, ActivityWindow), FloatOne)))

\* the raw-popularity policy: any starred project gets the full weight
growth_score_Popularity(p) ==
    IF p.stars > 0 THEN FloatOfInt(GrowthWeight) ELSE FloatZero

\* 25 * min(fork_ratio * 2, 1) when stars > 0, else 0
growth_score(p) ==
    IF p.stars > 0
    THEN LET fork_ratio == FloatDiv(p.forks, p.stars)
         IN  FloatMulInt(GrowthWeight, FloatMin(FloatMulInt(2, fork_ratio), FloatOne))
    ELSE FloatZero

\* ideal_ratio = 0.1
ideal_ratio == FloatDiv(1, 10)

\* the maintenance score without the stars guard: an issue ratio of 0 for a
\* project without stars
maintenance_score_NoGuard(p) ==
    LET issue_ratio == IF p.stars > 0 THEN FloatDiv(p.open_issues, p.stars) ELSE FloatZero
    IN  FloatMulInt(MaintenanceWeight,
            FloatSub(FloatOne,
                FloatMin(FloatMulInt(5, FloatAbs(FloatSub(issue_ratio, ideal_ratio))),
                         FloatOne)))

\* 20 * (1 - min(abs(issue_ratio - ideal_ratio) * 5, 1)), appended only when
\* stars > 0
maintenance_score(p) ==
    IF p.stars > 0
    THEN LET issue_ratio == FloatDiv(p.open_issues, p.stars)
         IN  FloatMulInt(MaintenanceWeight,
                FloatSub(FloatOne,
                    FloatMin(FloatMulInt(5, FloatAbs(FloatSub(issue_ratio, ideal_ratio))),
                             FloatOne)))
    ELSE FloatZero

\* 10 * min(project_age_days / 730, 1)
age_score(p) ==
    LET project_age_days == Days(Now, p.created_at)
    IN  FloatMulInt(AgeWeight, FloatMin(FloatDiv(project_age_days, AgeHorizon), FloatOne))

\* 5 * min(len(topics) / 5, 1)
topics_score(p) ==
    FloatMulInt(TopicsWeight, FloatMin(FloatDiv(p.topics, TopicsIdeal), FloatOne))

\* description = project['description'] or ""; 5 * min(len(description) / 100, 1)
desc_score(p) ==
    LET len == IF p.description = NULL THEN 0 ELSE p.description
    IN  FloatMulInt(DescWeight, FloatMin(FloatDiv(len, DescIdeal), FloatOne))

\* age_score + topics_score + desc_score
maturity_score(p) == FloatAdd(FloatAdd(age_score(p), topics_score(p)), desc_score(p))

\* Which of the scores are Python floats; the others are ints.  min(x, 1)
\* returns the int 1 when x > 1, and a product, difference or sum of ints is
\* an int: activity_score is then the int 0, growth_score the int 25,
\* maintenance_score the int 0, maturity_score the int 20.  growth_score is
\* the int 0 without stars, and no maintenance_score is appended then, which
\* is the same to sum() as the int 0.
ScoreIsFloat(p) ==
    << FloatCmp(FloatDiv(Days(Now, p.updated_at), ActivityWindow), FloatOne) <= 0,
       /\ p.stars > 0
       /\ FloatCmp(FloatMulInt(2, FloatDiv(p.forks, p.stars)), FloatOne) <= 0,
       /\ p.stars > 0
       /\ FloatCmp(FloatMulInt(5, FloatAbs(FloatSub(FloatDiv(p.open_issues, p.stars),
                                                    ideal_ratio))),
                   FloatOne) <= 0,
       \/ FloatCmp(FloatDiv(Days(Now, p.created_at), AgeHorizon), FloatOne) <= 0
       \/ FloatCmp(FloatDiv(p.topics, TopicsIdeal), FloatOne) <= 0
       \/ FloatCmp(FloatDiv(IF p.description = NULL THEN 0 ELSE p.description, DescIdeal),
                   FloatOne) <= 0 >>

\* sum() adds floats from the left with every rounding error dropped
\* (CPython up to 3.11), or keeps the rounding errors in a compensation that
\* it adds at the end (CPython 3.12 and later); the code fixes no interpreter
SumAlgorithms == {"left_to_right", "compensated"}

\* the rounding error of t = f + x that the compensated sum() keeps:
\* (f - t) + x if fabs(f) >= fabs(x), else (x - t) + f
NeumaierError(f, x, t) ==
    IF FloatCmp(FloatAbs(f), FloatAbs(x)) >= 0
    THEN FloatAdd(FloatSub(f, t), x)
    ELSE FloatAdd(FloatSub(x, t), f)

\* The compensated sum() from the i-th of the scores xs on, f the sum so far
\* and c the compensation.  Ints are added as they are, and so is the first
\* float, which is added to the int sum of the scores before it (started
\* tells that a float was met); every later float is added with its rounding
\* error kept.  At the end the compensation is added if it is not zero.
RECURSIVE CompensatedSum(_, _, _, _, _, _)
CompensatedSum(xs, floats, i, f, c, started) ==
    IF i > Len(xs)
    THEN IF c.mant # << >> THEN FloatAdd(f, c) ELSE f
    ELSE IF floats[i] /\ started
    THEN CompensatedSum(xs, floats, i + 1, FloatAdd(f, xs[i]),
                        FloatAdd(c, NeumaierError(f, xs[i], FloatAdd(f, xs[i]))), TRUE)
    ELSE CompensatedSum(xs, floats, i + 1, FloatAdd(f, xs[i]), c, started \/ floats[i])

\* sum(scores), the start value being the int 0
total_score(p, algorithm) ==
    IF algorithm = "compensated"
    THEN CompensatedSum(<< activity_score(p), growth_score(p), maintenance_score(p),
                           maturity_score(p) >>,
                        ScoreIsFloat(p), 1, FloatZero, FloatZero, FALSE)
    ELSE FloatAdd(FloatAdd(FloatAdd(FloatAdd(FloatZero, activity_score(p)), growth_score(p)),
                           maintenance_score(p)),
                  maturity_score(p))

\* return min(total_score, 100)
CalculateProjectScore(p, algorithm) ==
    FloatMin(total_score(p, algorithm), FloatOfInt(ScoreCap))

----------------------------------------------------------------------------
(* Lists *)

\* Python's s[:n]
Take(s, n) ==
    IF n >= 0
    THEN SubSeq(s, 1, Min(n, Len(s)))
    ELSE SubSeq(s, 1, Max(Len(s) + n, 0))

\* x > y for two key tuples of the same length, as Python compares tuples
TupleGt(x, y) ==
    \E i \in 1..Len(x) : x[i] > y[i] /\ \A j \in 1..(i - 1) : x[j] = y[j]

\* sorted(s, key=..., reverse=True), keys[i] being the key of s[i]: elements
\* with equal keys keep their order
SortedReverse(s, keys) ==
    LET n == Len(s)
        rank(i) == 1 + Cardinality({j \in 1..n :
                        TupleGt(keys[j], keys[i])
                        \/ (~TupleGt(keys[i], keys[j]) /\ j < i)})
    IN  [k \in 1..n |-> s[CHOOSE i \in 1..n : rank(i) = k]]

RECURSIVE Flatten(_)
Flatten(ss) == IF ss = << >> THEN << >> ELSE Head(ss) \o Flatten(Tail(ss))

----------------------------------------------------------------------------
(* _apply_custom_filters with the two predicate lists of search_repositories *)

\* p['description'] is not None and len(p['description']) > 30
StrictDescription(p) == p.description # NULL /\ p.description > StrictDescLen
\* len(p['topics']) >= 1
StrictTopics(p) == p.topics >= StrictMinTopics
\* p['forks'] >= p['stars'] * 0.05
StrictForks(p) == 20 * p.forks >= p.stars

\* p['description'] is not None
RelaxedDescription(p) == p.description # NULL
\* p['stars'] >= self.config['min_stars']
RelaxedStars(p, cfg) == p.stars >= cfg.min_stars

StrictPredicates(p) == StrictDescription(p) /\ StrictTopics(p) /\ StrictForks(p)
RelaxedPredicates(p, cfg) == RelaxedDescription(p) /\ RelaxedStars(p, cfg)

\* each filter is applied in turn to what the previous one kept
ApplyStrictFilters(ps) ==
    SelectSeq(SelectSeq(SelectSeq(ps, StrictDescription), StrictTopics), StrictForks)

ApplyRelaxedFilters(ps, cfg) ==
    SelectSeq(SelectSeq(ps, RelaxedDescription), LAMBDA p : RelaxedStars(p, cfg))

----------------------------------------------------------------------------
(* _ensure_diversity *)

\* lang = project['language'] or 'Unknown'
Lang(p) == IF p.language = NoLanguage THEN "Unknown" ELSE p.language

\* list(language_groups.keys()): the languages in order of first occurrence
Languages(ps) ==
    LET first == {i \in 1..Len(ps) : \A j \in 1..(i - 1) : Lang(ps[j]) # Lang(ps[i])}
        nth(k) == CHOOSE i \in first : Cardinality({j \in first : j < i}) = k - 1
    IN  [k \in 1..Cardinality(first) |-> Lang(ps[nth(k)])]

LanguageGroup(ps, lang) == SelectSeq(ps, LAMBDA p : Lang(p) = lang)

RECURSIVE SumStars(_)
SumStars(ps) == IF ps = << >> THEN 0 ELSE Head(ps).stars + SumStars(Tail(ps))

\* key=lambda p: p['quality_score']
QualityKeys(ps) == [i \in 1..Len(ps) |-> << ps[i].quality_score >>]

SortedByQuality(ps) == SortedReverse(ps, QualityKeys(ps))

InSeq(x, s) == \E i \in 1..Len(s) : s[i] = x

\* every language is given max_results slots instead of its share
ProjectsPerLanguage_NoShare(ps, max_results) ==
    [k \in 1..Len(Languages(ps)) |-> Max(1, max_results)]

\* with more languages than slots, the first languages met get the slots
ProjectsPerLanguage_FirstLanguages(ps, max_results) ==
    LET languages == Languages(ps)
    IN  IF Len(languages) <= max_results
        THEN [k \in 1..Len(languages) |-> Max(1, max_results \div Len(languages))]
        ELSE [k \in 1..Len(languages) |-> IF k <= max_results THEN 1 ELSE 0]

ProjectsPerLanguage(ps, max_results) ==
    LET languages == Languages(ps)
        stars == [k \in 1..Len(languages) |-> << SumStars(LanguageGroup(ps, languages[k])) >>]
        sorted_langs == SortedReverse(languages, stars)
    IN  IF Len(languages) <= max_results
        THEN [k \in 1..Len(languages) |-> Max(1, max_results \div Len(languages))]
        ELSE [k \in 1..Len(languages) |->
                IF InSeq(languages[k], Take(sorted_langs, max_results)) THEN 1 ELSE 0]

\* the per-language selection, in the order of the language groups
SelectPerLanguage(ps, max_results) ==
    LET languages == Languages(ps)
        count == ProjectsPerLanguage(ps, max_results)
        pick(k) == IF count[k] > 0
                   THEN Take(SortedByQuality(LanguageGroup(ps, languages[k])), count[k])
                   ELSE << >>
    IN  Flatten([k \in 1..Len(languages) |-> pick(k)])

\* the fill step without the exclusion of the selected urls
FillRemaining_NoExclusion(ps, diverse_projects, max_results) ==
    LET remaining_slots == max_results - Len(diverse_projects)
    IN  IF remaining_slots > 0
        THEN diverse_projects \o Take(SortedByQuality(ps), remaining_slots)
        ELSE diverse_projects

\* the fill step: the best of the projects whose url is not selected yet
FillRemaining(ps, diverse_projects, max_results) ==
    LET remaining_slots == max_results - Len(diverse_projects)
        selected_urls == {diverse_projects[i].url : i \in 1..Len(diverse_projects)}
        remaining_projects == SelectSeq(ps, LAMBDA p : p.url \notin selected_urls)
    IN  IF remaining_slots > 0
        THEN diverse_projects \o Take(SortedByQuality(remaining_projects), remaining_slots)
        ELSE diverse_projects

\* the per-language selection sorted first, the fill appended afterwards
EnsureDiversity_FillAfterSort(ps, max_results) ==
    IF ps = << >>
    THEN << >>
    ELSE FillRemaining(ps, SortedByQuality(SelectPerLanguage(ps, max_results)), max_results)

EnsureDiversity(ps, max_results) ==
    IF ps = << >>
    THEN << >>
    ELSE SortedByQuality(FillRemaining(ps, SelectPerLanguage(ps, max_results), max_results))

----------------------------------------------------------------------------
(* The answers of the search collaborator *)

DaysAgo(d) == Now - d * TicksPerDay
Today == Now - 1

Item(id, lang, desc, stars, forks, issues, pushed, created, ntopics) ==
    [full_name |-> id, html_url |-> id, description |-> desc,
     stargazers_count |-> stars, forks_count |-> forks, pushed_at |-> pushed,
     created_at |-> created, language |-> lang, topics |-> ntopics, size |-> 1,
     open_issues_count |-> issues]

\* an item of the answer in which one key is absent
Without(item, key) == [f \in DOMAIN item \ {key} |-> item[f]]

Catalogue ==
    { Item(1, "Python",   40, 10, 5, 1, Today,       DaysAgo(800), 2),
      Item(2, "Go",       40, 10, 5, 1, DaysAgo(1),  DaysAgo(800), 2),
      Item(3, NoLanguage, 40,  1, 5, 0, Today,       DaysAgo(800), 2),
      Item(4, "Python",   10, 10, 5, 1, Today,       DaysAgo(800), 2),
      Item(5, "Go",       40, 10, 5, 1, Today,       DaysAgo(800), 0),
      Item(6, "Python", NULL, 10, 5, 1, Today,       DaysAgo(800), 2),
      Item(7, "Python",   40, 10, 5, 1, DaysAgo(10), DaysAgo(800), 2),
      Item(8, NoLanguage, 40, 10, 0, 1, Today,       DaysAgo(800), 2),
      Item(9, "Go",       60, 10, 5, 1, DaysAgo(10), DaysAgo(800), 2),
      Item(12, "Go",       0, 15, 7, 1, DaysAgo(3),  DaysAgo(0),   0),
      Without(Item(10, "Python", 40, 10, 5, 1, Today, DaysAgo(800), 2), "description"),
      Without(Item(11, "Go", 40, 10, 5, 1, DaysAgo(1), DaysAgo(800), 2), "topics") }

BoundedSeq(S, n) == UNION {[1..k -> S] : k \in 0..n}

NoResponse == [status |-> 0, reset |-> NULL, items |-> << >>]

Responses ==
    {[status |-> 200, reset |-> NULL, items |-> its] : its \in BoundedSeq(Catalogue, MaxItems)}
    \cup {[status |-> RateLimitStatus, reset |-> r, items |-> << >>] : r \in {NULL, 1}}
    \cup {[status |-> 500, reset |-> NULL, items |-> << >>]}

Configs == [max_results : 1..MaxResults, min_stars : {2}]

----------------------------------------------------------------------------
(* search_repositories *)

RequiredKeys ==
    {"full_name", "html_url", "description", "stargazers_count", "forks_count",
     "pushed_at", "created_at", "language", "size", "open_issues_count"}

WellFormed(item) == RequiredKeys \subseteq DOMAIN item

\* the dict built from one item; item.get("topics", [])
MapItem(item) ==
    [name |-> item.full_name, url |-> item.html_url, description |-> item.description,
     stars |-> item.stargazers_count, forks |-> item.forks_count,
     updated_at |-> item.pushed_at, created_at |-> item.created_at,
     language |-> item.language,
     topics |-> IF "topics" \in DOMAIN item THEN item.topics ELSE 0,
     size |-> item.size, open_issues |-> item.open_issues_count]

MapItems(items) == [i \in 1..Len(items) |-> MapItem(items[i])]

----------------------------------------------------------------------------
(* _filter_projects (Stage A) *)

\* _calculate_project_score on the records of the catalogue, computed once
CatalogueScores ==
    [algorithm \in SumAlgorithms |->
        [p \in {MapItem(item) : item \in {c \in Catalogue : WellFormed(c)}} |->
            CalculateProjectScore(p, algorithm)]]

\* score = self._calculate_project_score(project)
ProjectScore(p) ==
    IF p \in DOMAIN CatalogueScores[sum_algorithm]
    THEN CatalogueScores[sum_algorithm][p]
    ELSE CalculateProjectScore(p, sum_algorithm)

\* project['quality_score'] = round(score, 2)
Scored(p) ==
    [f \in DOMAIN p \cup {"quality_score"} |->
        IF f = "quality_score"
        THEN Round2(ProjectScore(p))
        ELSE p[f]]

\* the record without the appended score
Strip(p) == [f \in DOMAIN p \ {"quality_score"} |-> p[f]]

\* score >= min_score
PassesScore(p, min_score) == FloatCmp(ProjectScore(p), FloatOfInt(min_score)) >= 0

\* the sort key with the score first and the push time second
StageAKeys_QualityFirst(ps) ==
    [i \in 1..Len(ps) |-> << ps[i].quality_score, ps[i].updated_at >>]

\* key=lambda x: (updated_at, x['quality_score'])
StageAKeys(ps) == [i \in 1..Len(ps) |-> << ps[i].updated_at, ps[i].quality_score >>]

FilterProjects(ps, min_score) ==
    LET passing == SelectSeq(ps, LAMBDA p : PassesScore(p, min_score))
        scored_projects == [i \in 1..Len(passing) |-> Scored(passing[i])]
    IN  SortedReverse(scored_projects, StageAKeys(scored_projects))

\* the dicts of the input list that pass are the ones the score is written to
ScoredInPlace(ps, min_score) ==
    [i \in 1..Len(ps) |-> IF PassesScore(ps[i], min_score) THEN Scored(ps[i]) ELSE ps[i]]

----------------------------------------------------------------------------
\* no send_email call is running
NoSmtp ==
    [attempt |-> 0, connections |-> 0, sends |-> 0, delivered |-> FALSE,
     pending |-> NoException, retried |-> << >>]

Raise(e) ==
    /\ pc' = "raised"
    /\ exception' = e

Init ==
    /\ sum_algorithm \in SumAlgorithms
    /\ pc = "start"
    /\ config \in Configs
    /\ response = NoResponse
    /\ projects = << >>
    /\ quality_projects = << >>
    /\ strict_projects = << >>
    /\ filtered_projects = << >>
    /\ final_projects = << >>
    /\ result = << >>
    /\ exception = NoException
    /\ relaxed_runs = 0
    /\ relaxed_input = << >>
    /\ queries = << >>
    /\ handed = << >>
    /\ results = << >>
    /\ smtp = NoSmtp
    /\ attempt_number = 0
    /\ project = << >>
    /\ score = FloatZero

\* requests.get, the 403 branch and raise_for_status
Fetch ==
    /\ pc = "start"
    /\ \E r \in Responses :
        /\ response' = r
        /\ IF r.status = RateLimitStatus
           THEN IF r.reset = NULL
                THEN Raise("TypeError")        \* int(None)
                ELSE Raise("RuntimeError")
           ELSE IF r.status # 200
                THEN Raise("HTTPError")
                ELSE pc' = "fetched" /\ UNCHANGED exception
    /\ UNCHANGED << sum_algorithm, config, projects, quality_projects, strict_projects,
                    filtered_projects, final_projects, result, relaxed_runs,
                    relaxed_input, project, score,
                    queries, handed, results, smtp, attempt_number >>

\* the list comprehension over response.json()["items"]
MapResponse ==
    /\ pc = "fetched"
    /\ IF \A i \in 1..Len(response.items) : WellFormed(response.items[i])
       THEN /\ projects' = MapItems(response.items)
            /\ pc' = "mapped"
            /\ UNCHANGED exception
       ELSE /\ Raise("KeyError")
            /\ UNCHANGED projects
    /\ UNCHANGED << sum_algorithm, config, response, quality_projects, strict_projects,
                    filtered_projects, final_projects, result, relaxed_runs,
                    relaxed_input, project, score,
                    queries, handed, results, smtp, attempt_number >>

\* quality_projects = self._filter_projects(projects)
StageA ==
    /\ pc = "mapped"
    /\ quality_projects' = FilterProjects(projects, DefaultMinScore)
    /\ projects' = ScoredInPlace(projects, DefaultMinScore)
    /\ pc' = "scored"
    /\ UNCHANGED << sum_algorithm, config, response, strict_projects, filtered_projects,
                    final_projects, result, exception, relaxed_runs,
                    relaxed_input, project, score,
                    queries, handed, results, smtp, attempt_number >>

\* the first _apply_custom_filters call
StageBStrict ==
    /\ pc = "scored"
    /\ strict_projects' = ApplyStrictFilters(quality_projects)
    /\ filtered_projects' = ApplyStrictFilters(quality_projects)
    /\ pc' = "strict"
    /\ UNCHANGED << sum_algorithm, config, response, projects, quality_projects, final_projects,
                    result, exception, relaxed_runs, relaxed_input, project, score,
                    queries, handed, results, smtp, attempt_number >>

NeedsRelaxation(ps) == Len(ps) < MinAcceptable

\* if len(filtered_projects) < 3: the second _apply_custom_filters call
StageBRelaxed ==
    /\ pc = "strict"
    /\ NeedsRelaxation(filtered_projects)
    /\ filtered_projects' = ApplyRelaxedFilters(quality_projects, config)
    /\ relaxed_runs' = relaxed_runs + 1
    /\ relaxed_input' = quality_projects
    /\ pc' = "filtered"
    /\ UNCHANGED << sum_algorithm, config, response, projects, quality_projects, strict_projects,
                    final_projects, result, exception, project, score,
                    queries, handed, results, smtp, attempt_number >>

\* final_projects = self._ensure_diversity(filtered_projects)
Diversify ==
    /\ \/ pc = "filtered"
       \/ pc = "strict" /\ ~NeedsRelaxation(filtered_projects)
    /\ final_projects' = EnsureDiversity(filtered_projects, config.max_results)
    /\ pc' = "diverse"
    /\ UNCHANGED << sum_algorithm, config, response, projects, quality_projects, strict_projects,
                    filtered_projects, result, exception, relaxed_runs,
                    relaxed_input, project, score,
                    queries, handed, results, smtp, attempt_number >>

\* the log line with mean(...) and return final_projects[:max_results]
Return ==
    /\ pc = "diverse"
    /\ IF final_projects = << >>
       THEN /\ Raise("StatisticsError")    \* mean([]) 
            /\ UNCHANGED result
       ELSE /\ result' = Take(final_projects, config.max_results)
            /\ pc' = "done"
            /\ UNCHANGED exception
    /\ UNCHANGED << sum_algorithm, config, response, projects, quality_projects, strict_projects,
                    filtered_projects, final_projects, relaxed_runs,
                    relaxed_input, project, score,
                    queries, handed, results, smtp, attempt_number >>

Next == Fetch \/ MapResponse \/ StageA \/ StageBStrict \/ StageBRelaxed \/ Diversify \/ Return

Spec == Init /\ [][Next]_vars

\* how one call ends for an answer of status 200, as a function of the answer:
\* with the KeyError of the list comprehension, with the exception of mean()
\* on an empty final list, or with the list returned
PipelineResult(items, cfg) ==
    LET quality == FilterProjects(MapItems(items), DefaultMinScore)
        strict == ApplyStrictFilters(quality)
        filtered == IF NeedsRelaxation(strict)
                    THEN ApplyRelaxedFilters(quality, cfg)
                    ELSE strict
        final == EnsureDiversity(filtered, cfg.max_results)
    IN  IF \E i \in 1..Len(items) : ~WellFormed(items[i])
        THEN [exception |-> "KeyError", result |-> << >>]
        ELSE IF final = << >>
        THEN [exception |-> "StatisticsError", result |-> << >>]
        ELSE [exception |-> NoException, result |-> Take(final, cfg.max_results)]

----------------------------------------------------------------------------
(* Direct calls of _calculate_project_score on one candidate record *)

\* stars=10000, forks=600, open_issues=50, pushed 2 days ago, created 400 days
\* ago, 3 topics, a description of 120 characters
ScenarioProject ==
    MapItem(Item(1, "Python", 120, 10000, 600, 50, DaysAgo(2), DaysAgo(400), 3))

ScoreInputs ==
    { MapItem(Item(1, "Python", desc, stars, forks, issues, pushed, created, ntopics)) :
        desc \in {NULL, 0, 50, 120}, stars \in {0, 1, 3, 10}, forks \in {0, 1, 5},
        issues \in {0, 1, 5}, pushed \in {Now + 1, Today, DaysAgo(3), DaysAgo(8)},
        created \in {Now + 1, Today, DaysAgo(400), DaysAgo(800)}, ntopics \in {0, 3, 6} }
    \cup {ScenarioProject}
    \* candidates whose sub-scores add up, in exact arithmetic, to a tie of
    \* round(score, 2) or to the threshold 60 itself
    \cup { MapItem(Item(1, "Python", 99, 16,  5,  1, DaysAgo(2), DaysAgo(511), 2)),
           MapItem(Item(1, "Python",  2, 80, 33, 13, DaysAgo(3), DaysAgo(511), 5)),
           MapItem(Item(1, "Python",  3, 80,  5, 16, DaysAgo(0), DaysAgo(800), 2)),
           MapItem(Item(1, "Python",  0, 15,  7,  1, DaysAgo(3), DaysAgo(0),   0)) }

InitScore ==
    /\ sum_algorithm \in SumAlgorithms
    /\ pc = "score_call"
    /\ project \in ScoreInputs
    /\ score = FloatZero
    /\ config \in [max_results : {1}, min_stars : {2}]
    /\ response = NoResponse
    /\ projects = << >>
    /\ quality_projects = << >>
    /\ strict_projects = << >>
    /\ filtered_projects = << >>
    /\ final_projects = << >>
    /\ result = << >>
    /\ exception = NoException
    /\ relaxed_runs = 0
    /\ relaxed_input = << >>
    /\ queries = << >>
    /\ handed = << >>
    /\ results = << >>
    /\ smtp = NoSmtp
    /\ attempt_number = 0

ScoreCall ==
    /\ pc = "score_call"
    /\ score' = CalculateProjectScore(project, sum_algorithm)
    /\ pc' = "score_done"
    /\ UNCHANGED << sum_algorithm, config, response, projects, quality_projects, strict_projects,
                    filtered_projects, final_projects, result, exception,
                    relaxed_runs, relaxed_input, project,
                    queries, handed, results, smtp, attempt_number >>

SpecScore == InitScore /\ [][ScoreCall]_vars

----------------------------------------------------------------------------
(* Direct calls of _ensure_diversity on a list of scored projects, followed *)
(* by the end of search_repositories                                        *)

ScoredCatalogue ==
    { Scored(MapItem(item)) :
        item \in {c \in Catalogue : WellFormed(c) /\ PassesScore(MapItem(c), DefaultMinScore)} }

InitDiversity ==
    /\ sum_algorithm \in SumAlgorithms
    /\ pc = "filtered"
    /\ config \in Configs
    /\ filtered_projects \in BoundedSeq(ScoredCatalogue, MaxItems)
    /\ response = NoResponse
    /\ projects = << >>
    /\ quality_projects = << >>
    /\ strict_projects = << >>
    /\ final_projects = << >>
    /\ result = << >>
    /\ exception = NoException
    /\ relaxed_runs = 0
    /\ relaxed_input = << >>
    /\ queries = << >>
    /\ handed = << >>
    /\ results = << >>
    /\ smtp = NoSmtp
    /\ attempt_number = 0
    /\ project = << >>
    /\ score = FloatZero

NextDiversity == Diversify \/ Return

SpecDiversity == InitDiversity /\ [][NextDiversity]_vars

----------------------------------------------------------------------------
(* Properties *)

Terminated == pc \in {"done", "raised"}
FetchSucceeded == response.status = 200
AllWellFormed == \A i \in 1..Len(response.items) : WellFormed(response.items[i])

Count(s, x) == Cardinality({i \in 1..Len(s) : s[i] = x})
\* every record of a occurs in b at least as often as in a
SubCollection(a, b) == \A i \in 1..Len(a) : Count(a, a[i]) <= Count(b, a[i])
StripAll(ps) == [i \in 1..Len(ps) |-> Strip(ps[i])]

\* C1: when the fetch succeeds and no candidate is left after Stage A or after
\* Stage B (strict, then relaxed), the call raises nothing and returns the
\* empty list.
C1_EmptyResultIsNotAnError ==
    (Terminated /\ FetchSucceeded /\ AllWellFormed /\ filtered_projects = << >>)
        => (pc = "done" /\ exception = NoException /\ result = << >>)

\* C2: the score of every candidate record lies between 0 and 100.
C2_ScoreWithinBounds ==
    pc = "score_done"
        => /\ FloatCmp(score, FloatZero) >= 0
           /\ FloatCmp(score, FloatOfInt(ScoreCap)) <= 0

\* C3: the list _ensure_diversity returns and the list search_repositories
\* returns have at most max_results entries.
C3_LengthAtMostMaxResults ==
    /\ Len(final_projects) <= config.max_results
    /\ Len(result) <= config.max_results

C3_Witness ==
    /\ pc = "done"
    /\ Len(filtered_projects) > config.max_results
    /\ Len(final_projects) = config.max_results
    /\ Len(result) = config.max_results

DistinctUrls(ps) ==
    \A i, j \in 1..Len(ps) : i # j => ps[i].url # ps[j].url

\* C4: no two entries of the output of _ensure_diversity, hence of the final
\* list, have the same url.
C4_NoDuplicateUrl ==
    DistinctUrls(final_projects) /\ DistinctUrls(result)

\* C5: every stage returns a sub-collection of its input: Stage A of the
\* fetched candidates, Stage B (strict and relaxed) of the Stage-A output,
\* _ensure_diversity of the list it is given, the returned list of the fetched
\* candidates; the lengths do not grow from the fetch to Stage A to Stage B.
C5_NoFabrication ==
    /\ SubCollection(StripAll(quality_projects), StripAll(projects))
    /\ SubCollection(strict_projects, quality_projects)
    /\ SubCollection(filtered_projects, quality_projects)
    /\ SubCollection(final_projects, filtered_projects)
    /\ SubCollection(result, final_projects)
    /\ SubCollection(StripAll(result), MapItems(SelectSeq(response.items, WellFormed)))
    /\ Len(filtered_projects) <= Len(quality_projects)
    /\ Len(strict_projects) <= Len(quality_projects)
    /\ Len(quality_projects) <= Len(response.items)

C5_Witness ==
    /\ pc = "done"
    /\ relaxed_runs = 1
    /\ Len(quality_projects) < Len(response.items)
    /\ Len(filtered_projects) < Len(quality_projects)
    /\ Len(strict_projects) < Len(filtered_projects)
    /\ result = final_projects
    /\ result # << >>

\* C6: every candidate of the Stage-A output that passes all the strict
\* predicates passes all the relaxed predicates.
C6_RelaxedIsLooser ==
    \A i \in 1..Len(quality_projects) :
        StrictPredicates(quality_projects[i])
            => RelaxedPredicates(quality_projects[i], config)

\* C7: the relaxed predicates are evaluated iff the strict result has fewer
\* than 3 records, at most once, on the Stage-A output, their result replaces
\* the strict result, and a relaxed result still below 3 raises no error.
C7_RelaxationOnceIffFewStrict ==
    (pc \in {"filtered", "diverse", "done"} \/ (pc = "raised" /\ exception = "StatisticsError"))
        => /\ relaxed_runs = (IF Len(strict_projects) < MinAcceptable THEN 1 ELSE 0)
           /\ relaxed_runs = 1 =>
                /\ relaxed_input = quality_projects
                /\ filtered_projects = ApplyRelaxedFilters(quality_projects, config)
                /\ (Len(filtered_projects) < MinAcceptable /\ Terminated)
                        => exception = NoException
           /\ relaxed_runs = 0 => filtered_projects = strict_projects

\* C8: a 403 answer ends the call with RuntimeError, with or without the
\* reset-time header, and no list is returned.
C8_RateLimitRaisesRuntimeError ==
    (pc # "start" /\ response.status = RateLimitStatus)
        => (pc = "raised" /\ exception = "RuntimeError" /\ result = << >>)

ExactlyOneMalformed ==
    Cardinality({i \in 1..Len(response.items) : ~WellFormed(response.items[i])}) = 1

\* C9: when one fetched record lacks an expected field, the call returns what
\* it returns for the fetch without that record.
C9_MalformedRecordIsSkipped ==
    LET rest == SelectSeq(response.items, WellFormed)
    IN  (Terminated /\ FetchSucceeded /\ ExactlyOneMalformed
            /\ PipelineResult(rest, config).exception = NoException)
        => (pc = "done" /\ result = PipelineResult(rest, config).result)

\* C10 as stated: the scenario candidate scores more than 80 and passes the
\* default Stage-A threshold.
C10_ScenarioAbove80 ==
    (pc = "score_done" /\ project = ScenarioProject)
        => /\ FloatCmp(score, FloatOfInt(80)) > 0
           /\ PassesScore(project, DefaultMinScore)

\* C10 amended: the scenario candidate scores between 51.97 and 51.98,
\* rounded 51.98 (25 activity + 3 growth + 10.5 maintenance + 13.48
\* maturity), which is below the default Stage-A threshold of 60.
C10_ScenarioScore ==
    (pc = "score_done" /\ project = ScenarioProject)
        => /\ FloatCmp(score, FloatDiv(5197, 100)) > 0
           /\ FloatCmp(score, FloatDiv(5198, 100)) < 0
           /\ Round2(score) = 5198
           /\ activity_score(project) = FloatOfInt(25)
           /\ growth_score(project) = FloatOfInt(3)
           /\ maintenance_score(project) = FloatDiv(21, 2)
           /\ ~PassesScore(project, DefaultMinScore)

C10_Witness ==
    /\ pc = "score_done"
    /\ project = ScenarioProject
    /\ FloatCmp(score, FloatOfInt(DefaultMinScore)) < 0

----------------------------------------------------------------------------
(* Properties of _ensure_diversity *)

LangSet(ps) == {Lang(ps[i]) : i \in 1..Len(ps)}
UrlSet(ps) == {ps[i].url : i \in 1..Len(ps)}
GroupStars(ps, lang) == SumStars(LanguageGroup(ps, lang))
Diversified == pc \in {"diverse", "done"}

\* C11: the output of _ensure_diversity has records of at least min(N, G)
\* language groups; with G > N it has exactly one record of each of N groups,
\* and no group left out has more stars in total than a group represented.
C11_LanguageCoverage ==
    Diversified =>
        LET N == config.max_results
            G == Cardinality(LangSet(filtered_projects))
            shown == LangSet(final_projects)
        IN  /\ Cardinality(shown) >= Min(N, G)
            /\ G > N =>
                /\ Len(final_projects) = N
                /\ Cardinality(shown) = N
                /\ \A a \in shown : \A b \in LangSet(filtered_projects) \ shown :
                        GroupStars(filtered_projects, a) >= GroupStars(filtered_projects, b)

C11_Witness ==
    /\ Diversified
    /\ Cardinality(LangSet(filtered_projects)) > config.max_results
    /\ Lang(filtered_projects[1]) \notin LangSet(final_projects)
    /\ \A a \in LangSet(final_projects) :
            GroupStars(filtered_projects, a)
                > GroupStars(filtered_projects, Lang(filtered_projects[1]))

\* C12: when all candidates have the same language and at least N distinct
\* urls occur among them, the output has exactly N records, none of the
\* candidates left out scores higher than a selected one, and no record is
\* there twice.
C12_SingleLanguageFill ==
    (Diversified
        /\ Cardinality(LangSet(filtered_projects)) = 1
        /\ Cardinality(UrlSet(filtered_projects)) >= config.max_results)
    => /\ Len(final_projects) = config.max_results
       /\ \A i \in 1..Len(filtered_projects) :
            filtered_projects[i].url \notin UrlSet(final_projects)
                => \A j \in 1..Len(final_projects) :
                        final_projects[j].quality_score >= filtered_projects[i].quality_score
       /\ DistinctUrls(final_projects)

SortedByQualityDesc(ps) ==
    \A i \in 1..(Len(ps) - 1) : ps[i].quality_score >= ps[i + 1].quality_score

\* C17: the list _ensure_diversity returns and the truncated list
\* search_repositories returns are in descending order of quality_score,
\* whether the records come from the per-language selection (of either
\* allocation branch) or from the fill step.
C17_OutputSortedByQuality ==
    SortedByQualityDesc(final_projects) /\ SortedByQualityDesc(result)

\* the selection left a slot, the fill step appended a record, and that
\* record scores higher than the selected record before it, so the final
\* sort moves a record of the fill step ahead of a record of the selection
C17_Witness ==
    /\ pc = "done"
    /\ Len(SelectPerLanguage(filtered_projects, config.max_results)) < Len(final_projects)
    /\ result = final_projects
    /\ LET diverse_projects ==
               FillRemaining(filtered_projects,
                             SelectPerLanguage(filtered_projects, config.max_results),
                             config.max_results)
       IN  /\ diverse_projects[Len(diverse_projects)].quality_score
                > diverse_projects[Len(diverse_projects) - 1].quality_score
           /\ final_projects # diverse_projects

----------------------------------------------------------------------------
(* _build_search_query.  The query string is the sequence of its clauses   *)
(* (the parts joined by ' '); search_keywords is the list                   *)
(* config['search_keywords'].split(","), empty when the key is absent or    *)
(* empty; a calendar date is the number of its day.                         *)

MaxCalls == 2
StarRangeFactor == 500

\* strftime('%Y-%m-%d') with the time of day in place of the day alone
DateOf_Instant(t) == t

\* strftime('%Y-%m-%d')
DateOf(t) == t \div TicksPerDay

Clause(kind, args) == [kind |-> kind, args |-> args]

BuildSearchQuery(cfg, now) ==
    LET date_range == << DateOf(now - cfg.update_within_days * TicksPerDay), DateOf(now) >>
    IN  (IF cfg.search_keywords # << >>
         THEN << Clause("keywords", cfg.search_keywords) >>      \* " OR ".join(...)
         ELSE << >>)
        \o << Clause("stars", << cfg.min_stars, cfg.min_stars * StarRangeFactor >>) >>
        \o (IF cfg.language # NoLanguage
            THEN << Clause("language", << cfg.language >>) >>
            ELSE << >>)
        \o << Clause("pushed", date_range) >>
        \o << Clause("forks", << cfg.min_stars \div 20 >>) >>    \* int(min_stars * 0.05)
        \o (IF cfg.exclude_forks THEN << Clause("fork:false", << >>) >> ELSE << >>)
        \o << Clause("good-first-issues:>0", << >>), Clause("topics:>=2", << >>) >>

QueryConfigs ==
    [search_keywords : {<< >>, << "AI" >>, << "AI", "LLM" >>},
     min_stars : {2, 100},
     language : {NoLanguage, "Python"},
     update_within_days : {1, 7},
     exclude_forks : BOOLEAN,
     max_results : {1}]

\* the instants of two consecutive days
Instants == 0..(2 * TicksPerDay - 1)

InitQuery ==
    /\ sum_algorithm \in SumAlgorithms
    /\ pc = "query"
    /\ config \in QueryConfigs
    /\ queries = << >>
    /\ response = NoResponse
    /\ projects = << >>
    /\ quality_projects = << >>
    /\ strict_projects = << >>
    /\ filtered_projects = << >>
    /\ final_projects = << >>
    /\ result = << >>
    /\ exception = NoException
    /\ relaxed_runs = 0
    /\ relaxed_input = << >>
    /\ project = << >>
    /\ score = FloatZero
    /\ handed = << >>
    /\ results = << >>
    /\ smtp = NoSmtp
    /\ attempt_number = 0

\* one construction of a crawler from the configuration, at some instant not
\* before the previous one
BuildQuery ==
    /\ pc = "query"
    /\ Len(queries) < MaxCalls
    /\ \E now \in Instants :
        /\ queries # << >> => now >= queries[Len(queries)].now
        /\ queries' = Append(queries, [now |-> now, query |-> BuildSearchQuery(config, now)])
    /\ UNCHANGED << sum_algorithm, pc, config, response, projects, quality_projects, strict_projects,
                    filtered_projects, final_projects, result, exception,
                    relaxed_runs, relaxed_input, project, score, handed, results, smtp,
                    attempt_number >>

SpecQuery == InitQuery /\ [][BuildQuery]_vars

ClauseOrder ==
    << "keywords", "stars", "language", "pushed", "forks", "fork:false",
       "good-first-issues:>0", "topics:>=2" >>

ClausePresent(kind) ==
    /\ kind = "keywords" => config.search_keywords # << >>
    /\ kind = "language" => config.language # NoLanguage
    /\ kind = "fork:false" => config.exclude_forks

Kinds(query) == [i \in 1..Len(query) |-> query[i].kind]

\* the two instants lie on the same UTC calendar day
SameUtcDay(a, b) == a \div TicksPerDay = b \div TicksPerDay

\* C13 as stated: two calls with the same configuration give the same query
\* string, whatever else differs between them.
C13_QueryDependsOnConfigOnly ==
    \A i, j \in 1..Len(queries) : queries[i].query = queries[j].query

\* C13 amended: two calls with the same configuration on the same UTC calendar
\* date give the same query string; the clauses present come in the fixed
\* order, the clauses of absent optional fields are left out.
C13_QueryDeterminedByConfigAndDate ==
    /\ \A i, j \in 1..Len(queries) :
            SameUtcDay(queries[i].now, queries[j].now)
                => queries[i].query = queries[j].query
    /\ \A i \in 1..Len(queries) :
            Kinds(queries[i].query) = SelectSeq(ClauseOrder, ClausePresent)

C13_Witness ==
    /\ Len(queries) = 2
    /\ queries[1].now # queries[2].now
    /\ SameUtcDay(queries[1].now, queries[2].now)
    /\ config.search_keywords = << >>
    /\ config.language = NoLanguage
    /\ Len(queries[2].query) < Len(ClauseOrder)

----------------------------------------------------------------------------
(* Properties of _calculate_project_score without stars and of              *)
(* _filter_projects                                                         *)

\* C15: for a project with stars = 0 the score call returns (nothing is
\* raised), the growth score and the maintenance score are 0, and the total
\* is the activity score plus the maturity score.
C15_ZeroStarsScore ==
    (pc = "score_done" /\ project.stars = 0)
        => /\ exception = NoException
           /\ growth_score(project) = FloatZero
           /\ maintenance_score(project) = FloatZero
           /\ score = FloatAdd(activity_score(project), maturity_score(project))

C15_Witness ==
    /\ pc = "score_done"
    /\ project.stars = 0
    /\ project.forks > 0
    /\ project.open_issues > 0
    /\ FloatCmp(score, FloatZero) > 0

StageADone == pc \notin {"start", "fetched", "mapped"}

\* C16: the list Stage A returns holds exactly the input records whose score
\* is >= 60, as often as the input holds them, each with quality_score =
\* round(score, 2) >= 60, ordered by push time descending and, for equal push
\* times, by quality_score descending.
C16_StageAKeepsExactlyPassing ==
    StageADone =>
        /\ \A x \in {Strip(projects[i]) : i \in 1..Len(projects)}
                    \cup {Strip(quality_projects[i]) : i \in 1..Len(quality_projects)} :
                Count(StripAll(quality_projects), x)
                    = IF PassesScore(x, DefaultMinScore)
                      THEN Count(StripAll(projects), x)
                      ELSE 0
        /\ \A i \in 1..Len(quality_projects) :
            LET q == quality_projects[i]
            IN  /\ q.quality_score >= DefaultMinScore * 100
                /\ q.quality_score = Round2(ProjectScore(Strip(q)))
        /\ \A i \in 1..(Len(quality_projects) - 1) :
            LET a == quality_projects[i]
                b == quality_projects[i + 1]
            IN  \/ a.updated_at > b.updated_at
                \/ a.updated_at = b.updated_at /\ a.quality_score >= b.quality_score

\* a record is dropped, two survivors of the same push time are put in score
\* order, and a later push with a lower score comes before an earlier push
C16_Witness ==
    /\ pc = "scored"
    /\ Len(quality_projects) < Len(projects)
    /\ Len(quality_projects) = 2
    /\ quality_projects[1].updated_at > quality_projects[2].updated_at
    /\ quality_projects[1].quality_score < quality_projects[2].quality_score
    /\ Strip(quality_projects[1]) # Strip(projects[1])

----------------------------------------------------------------------------
(* AIAnalyzer.analyze_projects.  Here a text is the sequence of its         *)
(* characters (ASCII), a description is a text (the empty text stands for "" *)
(* and for None, which take the same branch of                               *)
(* `if project.get('description')`), and topics is the list of its topics,   *)
(* each a text.  The answers of the completion API are the environment.      *)
(* An attempt of _make_api_request is a sequence of steps, one up to each    *)
(* place where the code sleeps or waits for an answer: pc = "request" before *)
(* the attempt (where the retry decorator sleeps between attempts), "post"   *)
(* while it sleeps before the request and waits for its answer,              *)
(* "second_post" while it waits for the answer to the repeated request,      *)
(* "concurrency_wait" and "cooldown" during the two sleeps after an answer,  *)
(* and "analyze" once the analysis is stored, where the loop sleeps between  *)
(* projects.                                                                 *)

MaxHanded == 2
MaxAttempts == 3

\* str.lower() on one character
LowerChar(c) ==
    CASE c = "A" -> "a" [] c = "B" -> "b" [] c = "C" -> "c" [] c = "D" -> "d"
      [] c = "E" -> "e" [] c = "F" -> "f" [] c = "G" -> "g" [] c = "H" -> "h"
      [] c = "I" -> "i" [] c = "J" -> "j" [] c = "K" -> "k" [] c = "L" -> "l"
      [] c = "M" -> "m" [] c = "N" -> "n" [] c = "O" -> "o" [] c = "P" -> "p"
      [] c = "Q" -> "q" [] c = "R" -> "r" [] c = "S" -> "s" [] c = "T" -> "t"
      [] c = "U" -> "u" [] c = "V" -> "v" [] c = "W" -> "w" [] c = "X" -> "x"
      [] c = "Y" -> "y" [] c = "Z" -> "z" [] OTHER -> c

\* text.lower()
Lower(text) == [i \in 1..Len(text) |-> LowerChar(text[i])]

\* text.replace(old, new): every occurrence of old, leftmost first, none overlapping
RECURSIVE Replace(_, _, _)
Replace(text, old, new) ==
    IF Len(text) < Len(old)
    THEN text
    ELSE IF SubSeq(text, 1, Len(old)) = old
    THEN new \o Replace(SubSeq(text, Len(old) + 1, Len(text)), old, new)
    ELSE << text[1] >> \o Replace(Tail(text), old, new)

\* the dict of sanitize_content, in its order: the pairs (old, new)
sensitive_words ==
    << << << "h", "a", "c", "k" >>, << "a", "c", "c", "e", "s", "s" >> >>,
       << << "c", "r", "a", "c", "k" >>, << "a", "n", "a", "l", "y", "z", "e" >> >>,
       << << "e", "x", "p", "l", "o", "i", "t" >>, << "u", "t", "i", "l", "i", "z", "e" >> >>,
       << << "v", "u", "l", "n", "e", "r", "a", "b", "i", "l", "i", "t", "y" >>, << "i", "s", "s", "u", "e" >> >>,
       << << "a", "t", "t", "a", "c", "k" >>, << "a", "p", "p", "r", "o", "a", "c", "h" >> >> >>

\* the loop of sanitize_content from the i-th pair on
RECURSIVE SanitizeFrom(_, _)
SanitizeFrom(text, i) ==
    IF i > Len(sensitive_words)
    THEN text
    ELSE SanitizeFrom(Replace(Lower(text), sensitive_words[i][1], sensitive_words[i][2]), i + 1)

\* for old, new in sensitive_words.items(): text = text.lower().replace(old, new)
sanitize_content(text) == SanitizeFrom(text, 1)

\* the two `if project.get(...)` assignments before the request
SanitizeProject(p) ==
    [p EXCEPT !.description = IF @ # << >> THEN sanitize_content(@) ELSE @,
              !.topics = [i \in 1..Len(@) |-> sanitize_content(@[i])]]

\* the assignments of the content-filter branch:
\* project['description'] = "Project description available at GitHub",
\* project['topics'] = []
ContentFilterFallback(p) ==
    [p EXCEPT !.description =
                  << "P", "r", "o", "j", "e", "c", "t", " ",
                     "d", "e", "s", "c", "r", "i", "p", "t", "i", "o", "n", " ",
                     "a", "v", "a", "i", "l", "a", "b", "l", "e", " ",
                     "a", "t", " ", "G", "i", "t", "H", "u", "b" >>,
              !.topics = << >>]

\* project['analysis'] = analysis
WithAnalysis(p, analysis) ==
    [f \in DOMAIN p \cup {"analysis"} |-> IF f = "analysis" THEN analysis ELSE p[f]]

\* The records handed to analyze_projects: records search_repositories
\* returned, with a description out of "", "Hack Tool", "hackathon README"
\* and the topics [] or ["Crack", "attack-vulnerability"]
AnalysisProjects ==
    { [Scored(MapItem(Item(1, "Python", 40, 10, 5, 1, Today, DaysAgo(800), 2)))
          EXCEPT !.description = description, !.topics = topics] :
        description \in
            { << >>,
              << "H", "a", "c", "k", " ", "T", "o", "o", "l" >>,
              << "h", "a", "c", "k", "a", "t", "h", "o", "n", " ", "R", "E", "A", "D", "M", "E" >> },
        topics \in
            { << >>,
              << << "C", "r", "a", "c", "k" >>,
                 << "a", "t", "t", "a", "c", "k", "-", "v", "u", "l", "n", "e", "r", "a", "b", "i", "l", "i", "t", "y" >> >> } }

\* The documents response.json() is asked for once the status checks are
\* passed.  invalid_json: the body is no JSON; null_document: the JSON null;
\* no_choices: a document without "choices"; empty_choices, null_choices:
\* "choices" is [] or null; no_message, null_message: the first choice has
\* no "message" or a null one; non_text: the content of the message is null
\* or another value that is no text; text: the content is a text, or the
\* message has no content and the default text is taken.
ResponseBodies ==
    {"invalid_json", "null_document", "no_choices", "empty_choices", "null_choices",
     "no_message", "null_message", "non_text", "text"}

\* the exception of response.json() and of the test for "choices"
ParseException(body) ==
    CASE body \in {"invalid_json", "no_choices"} -> "ValueError"
      [] body = "null_document" -> "TypeError"
      [] OTHER -> NoException

\* the exception of result['choices'][0]['message'].get('content', ...)
ReturnException(body) ==
    CASE body = "empty_choices" -> "IndexError"
      [] body = "null_choices" -> "TypeError"
      [] body = "no_message" -> "KeyError"
      [] body = "null_message" -> "AttributeError"
      [] OTHER -> NoException

InitAnalyze ==
    /\ sum_algorithm \in SumAlgorithms
    /\ pc = "analyze"
    /\ handed \in BoundedSeq(AnalysisProjects, MaxHanded)
    /\ results = << >>
    /\ project = << >>
    /\ attempt_number = 0
    /\ config \in [max_results : {MaxHanded}, min_stars : {2}]
    /\ response = NoResponse
    /\ projects = << >>
    /\ quality_projects = << >>
    /\ strict_projects = << >>
    /\ filtered_projects = << >>
    /\ final_projects = << >>
    /\ result = << >>
    /\ exception = NoException
    /\ relaxed_runs = 0
    /\ relaxed_input = << >>
    /\ score = FloatZero
    /\ queries = << >>
    /\ smtp = NoSmtp

\* the loop of analyze_projects takes the next project and calls analyze_project
NextProject ==
    /\ pc = "analyze"
    /\ Len(results) < Len(handed)
    /\ project' = handed[Len(results) + 1]
    /\ attempt_number' = 1
    /\ pc' = "request"
    /\ UNCHANGED << sum_algorithm, config, response, projects, quality_projects, strict_projects,
                    filtered_projects, final_projects, result, exception,
                    relaxed_runs, relaxed_input, score, queries, handed, results, smtp >>

\* analysis = self.analyze_project(project) has returned:
\* project['analysis'] = analysis; results.append(project).  The loop then
\* sleeps before it takes the next project.
StoreAnalysis(analysis) ==
    /\ project' = WithAnalysis(project, analysis)
    /\ results' = Append(results, WithAnalysis(project, analysis))
    /\ pc' = "analyze"
    /\ response' = NoResponse
    /\ UNCHANGED attempt_number

\* An exception leaves the attempt.  The retry decorator counts the next
\* attempt and sleeps before it calls _make_api_request again; after the
\* last attempt it re-raises, analyze_project turns the exception into
\* "分析失败：" with its text, and the analysis is stored.
FailAttempt(error) ==
    IF attempt_number < MaxAttempts
    THEN /\ attempt_number' = attempt_number + 1
         /\ pc' = "request"
         /\ response' = NoResponse
         /\ UNCHANGED << project, results >>
    ELSE StoreAnalysis([kind |-> "failed", error |-> error])

\* result = response.json() and the test for "choices"; a document with
\* choices is kept while the attempt sleeps before its return statement
ParseResponse(body) ==
    IF ParseException(body) # NoException
    THEN FailAttempt(ParseException(body))
    ELSE /\ response' = [body |-> body]
         /\ pc' = "cooldown"
         /\ UNCHANGED << project, results, attempt_number >>

\* everything of the call but project, results, pc, response, attempt_number
AnalyzeFrame ==
    UNCHANGED << sum_algorithm, config, projects, quality_projects, strict_projects,
                 filtered_projects, final_projects, result, exception,
                 relaxed_runs, relaxed_input, score, queries, handed, smtp >>

\* An attempt of _make_api_request begins: the prompt is built and the
\* description and the topics of the dict are rewritten in place; the attempt
\* then sleeps and posts the request.
SanitizeRecord ==
    /\ pc = "request"
    /\ project' = SanitizeProject(project)
    /\ pc' = "post"
    /\ UNCHANGED << results, response, attempt_number >>
    /\ AnalyzeFrame

\* requests.post answers or raises, and the answer is examined up to the
\* next sleep or request.  A status other than 200 comes with an error
\* message that is null (its lower() raises), with one that names the content
\* filter (the dict is rewritten again and the request repeated), with a body
\* that speaks of exceeded concurrency (the attempt sleeps, then raises), or
\* with a status raise_for_status raises for; every other answer is parsed.
Post ==
    /\ pc = "post"
    /\ \E answer \in {"RequestException", "null_error_message", "content_filter",
                       "concurrency_exceeded", "HTTPError"} \cup ResponseBodies :
        CASE answer = "RequestException" -> FailAttempt("RequestException")
          [] answer = "null_error_message" -> FailAttempt("AttributeError")
          [] answer = "content_filter" ->
                /\ project' = ContentFilterFallback(project)
                /\ pc' = "second_post"
                /\ UNCHANGED << results, response, attempt_number >>
          [] answer = "concurrency_exceeded" ->
                /\ pc' = "concurrency_wait"
                /\ UNCHANGED << project, results, response, attempt_number >>
          [] answer = "HTTPError" -> FailAttempt("HTTPError")
          [] OTHER -> ParseResponse(answer)
    /\ AnalyzeFrame

\* The request repeated after a content-filter refusal answers or raises.  A
\* status other than 200 ends the attempt with the notice as its value; with
\* the status 200 the body is searched for exceeded concurrency,
\* raise_for_status passes, and the answer is parsed.
SecondPost ==
    /\ pc = "second_post"
    /\ \E answer \in {"RequestException", "not_200", "concurrency_exceeded"}
                       \cup ResponseBodies :
        CASE answer = "RequestException" -> FailAttempt("RequestException")
          [] answer = "not_200" -> StoreAnalysis([kind |-> "notice", error |-> NoException])
          [] answer = "concurrency_exceeded" ->
                /\ pc' = "concurrency_wait"
                /\ UNCHANGED << project, results, response, attempt_number >>
          [] OTHER -> ParseResponse(answer)
    /\ AnalyzeFrame

\* time.sleep(self.request_interval * 2); raise RuntimeError("API并发限制")
ConcurrencyWait ==
    /\ pc = "concurrency_wait"
    /\ FailAttempt("RuntimeError")
    /\ AnalyzeFrame

\* time.sleep(self.request_interval), then the return statement, which
\* raises or returns the content; analyze_project formats the content, and
\* _format_analysis raises AttributeError for a content that is no text,
\* outside of the retried call
Cooldown ==
    /\ pc = "cooldown"
    /\ IF ReturnException(response.body) # NoException
       THEN FailAttempt(ReturnException(response.body))
       ELSE IF response.body = "non_text"
       THEN StoreAnalysis([kind |-> "failed", error |-> "AttributeError"])
       ELSE StoreAnalysis([kind |-> "analysis", error |-> NoException])
    /\ AnalyzeFrame

\* return results
ReturnResults ==
    /\ pc = "analyze"
    /\ Len(results) = Len(handed)
    /\ pc' = "analyzed"
    /\ UNCHANGED << sum_algorithm, config, response, projects, quality_projects, strict_projects,
                    filtered_projects, final_projects, result, exception,
                    relaxed_runs, relaxed_input, project, score, queries, handed,
                    results, smtp, attempt_number >>

NextAnalyze ==
    \/ NextProject
    \/ SanitizeRecord \/ Post \/ SecondPost \/ ConcurrencyWait \/ Cooldown
    \/ ReturnResults

SpecAnalyze == InitAnalyze /\ [][NextAnalyze]_vars

WithoutAnalysis(p) == [f \in DOMAIN p \ {"analysis"} |-> p[f]]

\* C14: between the hand-off and the reporting no field of a candidate
\* changes: every record analyze_projects returns, and the record an attempt
\* works on, is the record that was handed over, apart from the added
\* analysis.
C14_CandidatesImmutable ==
    /\ \A i \in 1..Len(results) : WithoutAnalysis(results[i]) = handed[i]
    /\ pc \in {"request", "post", "second_post", "concurrency_wait", "cooldown"}
        => project = handed[Len(results) + 1]

----------------------------------------------------------------------------
(* EmailSender.send_email.  The SMTP server and the file system are the      *)
(* environment: every call on them returns or raises one of the exceptions   *)
(* listed for it.  smtp.attempt is the loop variable of _send_with_retry,    *)
(* smtp.pending the exception (or the return) on its way out of the try      *)
(* statement, smtp.retried the retries taken: the exception caught and       *)
(* whether the attempt had delivered the message.                            *)

MaxRetries == 3

\* except (smtplib.SMTPServerDisconnected, socket.timeout)
Retryable == {"SMTPServerDisconnected", "socket.timeout"}

\* What a call on the server does: it returns ("ok") or raises.  Every call
\* reads a reply, and reading raises SMTPServerDisconnected, socket.timeout
\* or, for a reply line that is too long, SMTPResponseException.
ConnectOutcomes ==
    {"ok", "OSError", "SMTPConnectError", "SMTPResponseException"} \cup Retryable
EhloOutcomes == {"ok", "SMTPResponseException"} \cup Retryable

\* what the server's refusal of the credentials carries as e.smtp_error:
\* bytes that are UTF-8, bytes that are not, or a value that is no bytes
AuthenticationErrors ==
    {"SMTPAuthenticationError", "SMTPAuthenticationError_not_utf8",
     "SMTPAuthenticationError_not_bytes"}

LoginOutcomes ==
    {"ok", "SMTPException", "SMTPNotSupportedError", "SMTPResponseException"}
        \cup AuthenticationErrors \cup Retryable

\* except smtplib.SMTPAuthenticationError: the exception that leaves the
\* handler, which logs e.smtp_error.decode('utf-8') and then re-raises
LoginException(outcome) ==
    CASE outcome = "SMTPAuthenticationError_not_utf8" -> "UnicodeDecodeError"
      [] outcome = "SMTPAuthenticationError_not_bytes" -> "AttributeError"
      [] OTHER -> outcome

SendOutcomes ==
    {"ok", "SMTPRecipientsRefused", "SMTPSenderRefused", "SMTPDataError",
     "SMTPResponseException"} \cup Retryable

\* server.quit() in the finally clause
QuitOutcomes == {"ok", "SMTPResponseException"} \cup Retryable

InitEmail ==
    /\ sum_algorithm \in SumAlgorithms
    /\ pc = "send_email"
    /\ smtp = NoSmtp
    /\ exception = NoException
    /\ config \in [max_results : {1}, min_stars : {2}]
    /\ response = NoResponse
    /\ projects = << >>
    /\ quality_projects = << >>
    /\ strict_projects = << >>
    /\ filtered_projects = << >>
    /\ final_projects = << >>
    /\ result = << >>
    /\ relaxed_runs = 0
    /\ relaxed_input = << >>
    /\ project = << >>
    /\ score = FloatZero
    /\ queries = << >>
    /\ handed = << >>
    /\ results = << >>
    /\ attempt_number = 0

\* everything of the call but smtp, pc and exception
EmailFrame ==
    UNCHANGED << sum_algorithm, config, response, projects, quality_projects, strict_projects,
                 filtered_projects, final_projects, result, relaxed_runs,
                 relaxed_input, project, score, queries, handed, results,
                 attempt_number >>

\* building the message: _attach_file opens the report
PrepareMessage ==
    /\ pc = "send_email"
    /\ \E found \in BOOLEAN :
        IF found
        THEN pc' = "smtp_connect" /\ UNCHANGED exception
        ELSE Raise("FileNotFoundError")
    /\ UNCHANGED smtp
    /\ EmailFrame

\* server = smtplib.SMTP_SSL(...), outside the inner try
Connect ==
    /\ pc = "smtp_connect"
    /\ \E outcome \in ConnectOutcomes :
        /\ smtp' = [smtp EXCEPT !.connections = @ + 1,
                                !.delivered = FALSE,
                                !.pending = IF outcome = "ok" THEN NoException ELSE outcome]
        /\ pc' = IF outcome = "ok" THEN "smtp_ehlo" ELSE "smtp_except"
    /\ UNCHANGED exception
    /\ EmailFrame

\* server.ehlo()
Ehlo ==
    /\ pc = "smtp_ehlo"
    /\ \E outcome \in EhloOutcomes :
        IF outcome = "ok"
        THEN pc' = "smtp_login" /\ UNCHANGED smtp
        ELSE pc' = "smtp_quit" /\ smtp' = [smtp EXCEPT !.pending = outcome]
    /\ UNCHANGED exception
    /\ EmailFrame

\* server.login(...) and its except clause
Login ==
    /\ pc = "smtp_login"
    /\ \E outcome \in LoginOutcomes :
        IF outcome = "ok"
        THEN pc' = "smtp_send" /\ UNCHANGED smtp
        ELSE pc' = "smtp_quit" /\ smtp' = [smtp EXCEPT !.pending = LoginException(outcome)]
    /\ UNCHANGED exception
    /\ EmailFrame

\* server.send_message(msg), then the return statement
SendMessage ==
    /\ pc = "smtp_send"
    /\ \E outcome \in SendOutcomes :
        IF outcome = "ok"
        THEN smtp' = [smtp EXCEPT !.sends = @ + 1, !.delivered = TRUE, !.pending = "return"]
        ELSE smtp' = [smtp EXCEPT !.pending = outcome]
    /\ pc' = "smtp_quit"
    /\ UNCHANGED exception
    /\ EmailFrame

\* finally: server.quit(); an exception of quit replaces what was on its way out
Quit ==
    /\ pc = "smtp_quit"
    /\ \E outcome \in QuitOutcomes :
        IF outcome = "ok"
        THEN /\ pc' = IF smtp.pending = "return" THEN "sent" ELSE "smtp_except"
             /\ UNCHANGED smtp
        ELSE /\ pc' = "smtp_except"
             /\ smtp' = [smtp EXCEPT !.pending = outcome]
    /\ UNCHANGED exception
    /\ EmailFrame

\* the except clause of _send_with_retry, and what it does not catch
HandleException ==
    /\ pc = "smtp_except"
    /\ IF smtp.pending \in Retryable /\ smtp.attempt < MaxRetries - 1
       THEN /\ smtp' = [smtp EXCEPT
                            !.attempt = @ + 1,
                            !.pending = NoException,
                            !.retried = Append(@, [exception |-> smtp.pending,
                                                   delivered |-> smtp.delivered])]
            /\ pc' = "smtp_connect"
            /\ UNCHANGED exception
       ELSE /\ Raise(smtp.pending)
            /\ UNCHANGED smtp
    /\ EmailFrame

NextEmail ==
    PrepareMessage \/ Connect \/ Ehlo \/ Login \/ SendMessage \/ Quit \/ HandleException

SpecEmail == InitEmail /\ [][NextEmail]_vars

\* C18: one send_email call delivers the message at most once, opens at most
\* max_retries connections, and every retry follows an SMTPServerDisconnected
\* or socket.timeout of an attempt that had not delivered the message.
C18_AtMostOneDelivery ==
    /\ smtp.sends <= 1
    /\ smtp.connections <= MaxRetries
    /\ \A i \in 1..Len(smtp.retried) :
        /\ smtp.retried[i].exception \in Retryable
        /\ ~smtp.retried[i].delivered

====
